---- MODULE Spec2Model ----
(***************************************************************************)
(* State-machine model of TodoWidget (src/todo.py): the in-memory to-do    *)
(* list, the list view that mirrors it, the window geometry, the collapse  *)
(* flag and the JSON data file read at startup and written on exit.        *)
(*                                                                         *)
(* Strings are sequences of characters.  A character is written as a TLA+  *)
(* string: a printable character stands for itself, DQ, BS and NL name the *)
(* double quote, the backslash and the line feed.                          *)
(***************************************************************************)
EXTENDS Integers, Sequences, FiniteSets, TLC

VARIABLES
    file,        \* todos.json: whether it exists and its sequence of characters
    startFile,   \* history: content of the data file when the program started
    todos,       \* self.todos
    rows,        \* labels of the QListWidget items of self.list, in order
    currentRow,  \* self.list.currentRow(), 0-based, -1 when no row is current
    listVisible, \* visibility flag of self.list
    collapsed,   \* self.collapsed
    width,       \* self.width()
    height,      \* self.height()
    running,     \* FALSE once QApplication.quit() has been called
    last,        \* history: the handler that ran last and its inputs
    before,      \* history: the program state just before that handler ran
    loaded,      \* round-trip harness: what load() returned, or that it raised
    pc           \* round-trip harness: position in the save/load sequence

vars == <<file, startFile, todos, rows, currentRow, listVisible, collapsed,
          width, height, running, last, before, loaded, pc>>

-----------------------------------------------------------------------------
(* Characters *)

DQ == "DQ"
BS == "BS"
NL == "NL"
SP == " "

\* The data file: absent, or present with a content
NoFile == [exists |-> FALSE, content |-> <<>>]
FileOf(c) == [exists |-> TRUE, content |-> c]

\* Characters a text may hold: a letter, the two characters JSON must escape
\* and a control character.
Alphabet == {"n", DQ, BS, NL}

-----------------------------------------------------------------------------
(* json.dump(self.todos, f, ensure_ascii=False, indent=2) *)

RECURSIVE Concat(_)
Concat(ss) == IF ss = <<>> THEN <<>> ELSE Head(ss) \o Concat(Tail(ss))

\* an escape table without the entry of the backslash
EscapeCharNoBackslash(c) ==
    CASE c = DQ -> <<BS, DQ>>
      [] c = NL -> <<BS, "n">>
      [] OTHER  -> <<c>>

\* json.encoder.ESCAPE_DCT restricted to Alphabet; every other character is
\* written as it is (ensure_ascii=False).
EscapeChar(c) ==
    CASE c = DQ -> <<BS, DQ>>
      [] c = BS -> <<BS, BS>>
      [] c = NL -> <<BS, "n">>
      [] OTHER  -> <<c>>

encode_basestring(s) ==
    <<DQ>> \o Concat([k \in 1..Len(s) |-> EscapeChar(s[k])]) \o <<DQ>>

\* newline_indent at nesting level n with indent=2
NewlineIndent(n) == <<NL>> \o [k \in 1..(2 * n) |-> SP]

EncodeBool(b) == IF b THEN <<"t", "r", "u", "e">> ELSE <<"f", "a", "l", "s", "e">>

KeyText == <<"t", "e", "x", "t">>
KeyDone == <<"d", "o", "n", "e">>

\* one dict {"text": ..., "done": ...} at nesting level 1
EncodeItem(t) ==
    <<"{">> \o NewlineIndent(2)
        \o encode_basestring(KeyText) \o <<":", SP>> \o encode_basestring(t.text)
        \o <<",">> \o NewlineIndent(2)
        \o encode_basestring(KeyDone) \o <<":", SP>> \o EncodeBool(t.done)
        \o NewlineIndent(1) \o <<"}">>

RECURSIVE EncodeItems(_)
EncodeItems(td) ==
    IF Len(td) = 1 THEN EncodeItem(td[1])
    ELSE EncodeItem(td[1]) \o <<",">> \o NewlineIndent(1) \o EncodeItems(Tail(td))

json_dumps(td) ==
    IF td = <<>> THEN <<"[", "]">>
    ELSE <<"[">> \o NewlineIndent(1) \o EncodeItems(td) \o NewlineIndent(0) \o <<"]">>

-----------------------------------------------------------------------------
(* json.load(f): a parsed value is a record tagged by kind; a parse result  *)
(* is [ok, val, end] with end the position after the value.                 *)

Whitespace == {SP, NL, "TAB", "CR"}

Fail == [ok |-> FALSE, val |-> [kind |-> "none"], end |-> 0]
Done(v, e) == [ok |-> TRUE, val |-> v, end |-> e]

RECURSIVE SkipWS(_, _)
SkipWS(s, p) == IF p <= Len(s) /\ s[p] \in Whitespace THEN SkipWS(s, p + 1) ELSE p

At(s, p) == IF p <= Len(s) THEN s[p] ELSE "EOF"

\* json.decoder.BACKSLASH restricted to the escapes of Alphabet and "/"
Unescapable == {DQ, BS, "/", "n"}
Unescape(c) == IF c = "n" THEN NL ELSE c

\* py_scanstring, strict: s[p] is the character after the opening quote
RECURSIVE scanstring(_, _, _)
scanstring(s, p, acc) ==
    IF p > Len(s) THEN Fail
    ELSE IF s[p] = DQ THEN Done([kind |-> "str", s |-> acc], p + 1)
    ELSE IF s[p] = BS THEN
        IF p + 1 <= Len(s) /\ s[p + 1] \in Unescapable
        THEN scanstring(s, p + 2, Append(acc, Unescape(s[p + 1])))
        ELSE Fail
    ELSE IF s[p] = NL THEN Fail
    ELSE scanstring(s, p + 1, Append(acc, s[p]))

Literal(s, p, w) == p + Len(w) - 1 <= Len(s) /\ SubSeq(s, p, p + Len(w) - 1) = w

RECURSIVE scan_once(_, _), JSONArray(_, _, _), JSONObject(_, _, _, _)

\* json.scanner.py_make_scanner._scan_once (numbers and null are not needed)
scan_once(s, p) ==
    CASE At(s, p) = DQ  -> scanstring(s, p + 1, <<>>)
      [] At(s, p) = "{" -> LET q == SkipWS(s, p + 1)
                           IN  IF At(s, q) = "}"
                               THEN Done([kind |-> "dict", keys |-> <<>>, vals |-> <<>>], q + 1)
                               ELSE JSONObject(s, q, <<>>, <<>>)
      [] At(s, p) = "[" -> LET q == SkipWS(s, p + 1)
                           IN  IF At(s, q) = "]"
                               THEN Done([kind |-> "list", items |-> <<>>], q + 1)
                               ELSE JSONArray(s, q, <<>>)
      [] At(s, p) = "t" /\ Literal(s, p, EncodeBool(TRUE))  ->
            Done([kind |-> "bool", b |-> TRUE], p + 4)
      [] At(s, p) = "f" /\ Literal(s, p, EncodeBool(FALSE)) ->
            Done([kind |-> "bool", b |-> FALSE], p + 5)
      [] OTHER -> Fail

\* json.decoder.JSONArray: p is at the first character of the next element
JSONArray(s, p, acc) ==
    LET r == scan_once(s, p) IN
    IF ~r.ok THEN Fail
    ELSE LET q    == SkipWS(s, r.end)
             acc2 == Append(acc, r.val)
         IN  CASE At(s, q) = "]" -> Done([kind |-> "list", items |-> acc2], q + 1)
               [] At(s, q) = "," -> JSONArray(s, SkipWS(s, q + 1), acc2)
               [] OTHER -> Fail

\* json.decoder.JSONObject: p is at the opening quote of the next key
JSONObject(s, p, ks, vs) ==
    IF At(s, p) # DQ THEN Fail
    ELSE LET k == scanstring(s, p + 1, <<>>) IN
         IF ~k.ok THEN Fail
         ELSE LET c == SkipWS(s, k.end) IN
              IF At(s, c) # ":" THEN Fail
              ELSE LET r == scan_once(s, SkipWS(s, c + 1)) IN
                   IF ~r.ok THEN Fail
                   ELSE LET q   == SkipWS(s, r.end)
                            ks2 == Append(ks, k.val.s)
                            vs2 == Append(vs, r.val)
                        IN  CASE At(s, q) = "}" ->
                                    Done([kind |-> "dict", keys |-> ks2, vals |-> vs2], q + 1)
                              [] At(s, q) = "," -> JSONObject(s, SkipWS(s, q + 1), ks2, vs2)
                              [] OTHER -> Fail

\* json.loads: one value, surrounded by optional whitespace, then the end
json_loads(s) ==
    LET r == scan_once(s, SkipWS(s, 1)) IN
    IF r.ok /\ SkipWS(s, r.end) = Len(s) + 1 THEN r ELSE Fail

\* d[key] of a parsed dict: the last value stored under the key
Lookup(d, key) ==
    LET ix == {k \in 1..Len(d.keys) : d.keys[k] = key}
    IN  d.vals[CHOOSE k \in ix : \A j \in ix : j <= k]

HasKey(d, key) == \E k \in 1..Len(d.keys) : d.keys[k] = key

\* a parsed value that is a list of {"text": str, "done": bool} dicts
IsTodoList(v) ==
    /\ v.kind = "list"
    /\ \A k \in 1..Len(v.items) :
          /\ v.items[k].kind = "dict"
          /\ HasKey(v.items[k], KeyText) /\ Lookup(v.items[k], KeyText).kind = "str"
          /\ HasKey(v.items[k], KeyDone) /\ Lookup(v.items[k], KeyDone).kind = "bool"

AsTodoList(v) ==
    [k \in 1..Len(v.items) |->
        [text |-> Lookup(v.items[k], KeyText).s, done |-> Lookup(v.items[k], KeyDone).b]]

\* TodoWidget.load: the list it returns; raised when json.load raises or the
\* value is no list of {text, done} dicts, which the program cannot use
load(f) ==
    IF f.exists
    THEN LET r == json_loads(f.content)
         IN  IF r.ok /\ IsTodoList(r.val)
             THEN [raised |-> FALSE, todos |-> AsTodoList(r.val)]
             ELSE [raised |-> TRUE, todos |-> <<>>]
    ELSE [raised |-> FALSE, todos |-> <<>>]

\* TodoWidget.save: the content the file has afterwards
save(td) == FileOf(json_dumps(td))

-----------------------------------------------------------------------------
(* Bounds and inputs *)

\* longest to-do list the user builds
MaxItems == 2

\* longest to-do list of the save/load round trip
MaxItemsRT == 2

\* window size: resize(300, 400) and the limits of the two getInt dialogs
InitWidth == 300
InitHeight == 400
MinSize == 200
MaxSize == 800

\* texts the user types into the getText dialogs
InputTexts == {<<>>, <<"n">>, <<DQ>>}

\* numbers the user asks the two getInt dialogs for: one below the range,
\* one above it
WidthRequests == {MinSize - 50, MaxSize + 50}
HeightRequests == {MaxSize + 50}

Item(t, d) == [text |-> t, done |-> d]

\* data files the program may find at startup: none, or one item written
\* compactly by hand
StartFiles ==
    { NoFile,
      FileOf(<<"[", "{", DQ, "t", "e", "x", "t", DQ, ":", DQ, BS, DQ, DQ, ",",
               DQ, "d", "o", "n", "e", DQ, ":", "t", "r", "u", "e", "}", "]">>) }

-----------------------------------------------------------------------------
(* The list operations on self.todos.  An index is a Python index: 0-based, *)
(* negative indexes count from the end, anything else raises IndexError.    *)

IndexOk(td, i) == -Len(td) <= i /\ i < Len(td)
Pos(td, i) == IF i < 0 THEN i + Len(td) + 1 ELSE i + 1

\* What a handler leaves behind: the list, whether it raised IndexError,
\* whether it reached its call of refresh()
Returned(td, refreshed) == [todos |-> td, raised |-> FALSE, refreshed |-> refreshed]
Raised(td) == [todos |-> td, raised |-> TRUE, refreshed |-> FALSE]

\* add that appends whatever was confirmed
addAnyText(td, text, ok) ==
    IF ok THEN Returned(Append(td, Item(text, FALSE)), TRUE)
    ELSE Returned(td, FALSE)

\* TodoWidget.add with the dialog's answer (text, ok)
add(td, text, ok) ==
    IF ok /\ text # <<>> THEN Returned(Append(td, Item(text, FALSE)), TRUE)
    ELSE Returned(td, FALSE)

\* edit that, like add, ignores an empty text
editNonEmpty(td, i, text, ok) ==
    IF ~IndexOk(td, i) THEN Raised(td)
    ELSE IF ok /\ text # <<>> THEN Returned([td EXCEPT ![Pos(td, i)].text = text], TRUE)
    ELSE Returned(td, FALSE)

\* TodoWidget.edit: self.todos[i] is read before the dialog is shown
edit(td, i, text, ok) ==
    IF ~IndexOk(td, i) THEN Raised(td)
    ELSE IF ok THEN Returned([td EXCEPT ![Pos(td, i)].text = text], TRUE)
    ELSE Returned(td, FALSE)

\* delete that forgets to refresh the list view
deleteNoRefresh(td, i) ==
    IF ~IndexOk(td, i) THEN Raised(td)
    ELSE Returned(SubSeq(td, 1, Pos(td, i) - 1) \o SubSeq(td, Pos(td, i) + 1, Len(td)), FALSE)

\* TodoWidget.delete
delete(td, i) ==
    IF ~IndexOk(td, i) THEN Raised(td)
    ELSE Returned(SubSeq(td, 1, Pos(td, i) - 1) \o SubSeq(td, Pos(td, i) + 1, Len(td)), TRUE)

\* toggle written with |= instead of ^=
toggleOr(td, i) ==
    IF ~IndexOk(td, i) THEN Raised(td)
    ELSE Returned([td EXCEPT ![Pos(td, i)].done = TRUE], TRUE)

\* TodoWidget.toggle
toggle(td, i) ==
    IF ~IndexOk(td, i) THEN Raised(td)
    ELSE Returned([td EXCEPT ![Pos(td, i)].done = (@ # TRUE)], TRUE)

\* TodoWidget.refresh: the labels of the rows it adds after list.clear()
Marker(d) == IF d THEN <<"CHECK", SP>> ELSE <<"CIRCLE", SP>>
refresh(td) == [k \in 1..Len(td) |-> Marker(td[k].done) \o td[k].text]

\* item_menu without its early return
MenuAlwaysOpens(idx) == TRUE

\* TodoWidget.item_menu: the menu opens unless no row is current
MenuOpens(idx) == ~(idx < 0)

\* QInputDialog.getInt(min=lo, max=hi): the spin box keeps the number in range
getInt(req, lo, hi) == IF req < lo THEN lo ELSE IF req > hi THEN hi ELSE req

\* change_size that applies each confirmed number at once
change_sizeEager(w0, h0, w, ok1, h, ok2) ==
    IF ~ok1 THEN <<w0, h0>>
    ELSE IF ~ok2 THEN <<w, h0>>
    ELSE <<w, h>>

\* TodoWidget.change_size with the dialogs' answers: the size afterwards
change_size(w0, h0, w, ok1, h, ok2) ==
    IF ~ok1 THEN <<w0, h0>>
    ELSE IF ~ok2 THEN <<w0, h0>>
    ELSE <<w, h>>

\* mouseDoubleClickEvent that shows the list when it becomes collapsed
mouseDoubleClickEventInverted(c) == <<~c, ~c>>

\* TodoWidget.mouseDoubleClickEvent: <<list visibility, collapsed>> afterwards
mouseDoubleClickEvent(c) == <<c, ~c>>

-----------------------------------------------------------------------------
(* History *)

Snapshot == [todos |-> todos, width |-> width, height |-> height,
             collapsed |-> collapsed, listVisible |-> listVisible]

Op(name, i, text, ok) ==
    [op |-> name, i |-> i, text |-> text, ok |-> ok, raised |-> FALSE,
     ok2 |-> FALSE, w |-> 0, h |-> 0]

-----------------------------------------------------------------------------
(* The program *)

Init ==
    /\ startFile \in StartFiles
    /\ file = startFile
    /\ ~load(startFile).raised
    /\ todos = load(startFile).todos
    /\ rows = refresh(todos)
    /\ currentRow = -1
    /\ listVisible = TRUE
    /\ collapsed = FALSE
    /\ width = InitWidth
    /\ height = InitHeight
    /\ running = TRUE
    /\ last = Op("init", -1, <<>>, FALSE)
    /\ before = [todos |-> todos, width |-> InitWidth, height |-> InitHeight,
                 collapsed |-> FALSE, listVisible |-> TRUE]
    /\ loaded = load(NoFile)
    /\ pc = "ui"

\* A list handler has run with result r: refresh() rebuilds the rows and its
\* list.clear() leaves no current row; an IndexError ends the program.
Handled(r, op) ==
    /\ todos' = r.todos
    /\ last' = [op EXCEPT !.raised = r.raised]
    /\ before' = Snapshot
    /\ rows' = IF r.refreshed THEN refresh(r.todos) ELSE rows
    /\ currentRow' = IF r.refreshed THEN -1 ELSE currentRow
    /\ running' = ~r.raised
    /\ UNCHANGED <<file, startFile, listVisible, collapsed, width, height, loaded, pc>>

\* "add" of the blank-area menu or the tray menu
Add(text, ok) ==
    /\ running
    /\ Len(add(todos, text, ok).todos) <= MaxItems
    /\ Handled(add(todos, text, ok), Op("add", -1, text, ok))

\* a mouse press on row r of the visible list makes it the current row
PressRow(r) ==
    /\ running /\ listVisible
    /\ r \in 0..(Len(rows) - 1)
    /\ currentRow' = r
    /\ last' = Op("press", r, <<>>, FALSE)
    /\ before' = Snapshot
    /\ UNCHANGED <<file, startFile, todos, rows, listVisible, collapsed, width,
                   height, running, loaded, pc>>

\* item_menu returns at once, or its menu is dismissed
ItemMenuNone ==
    /\ running /\ listVisible
    /\ last' = Op("item_menu", currentRow, <<>>, FALSE)
    /\ before' = Snapshot
    /\ UNCHANGED <<file, startFile, todos, rows, currentRow, listVisible, collapsed,
                   width, height, running, loaded, pc>>

ItemMenuToggle ==
    /\ running /\ listVisible
    /\ MenuOpens(currentRow)
    /\ Handled(toggle(todos, currentRow), Op("toggle", currentRow, <<>>, FALSE))

ItemMenuEdit(text, ok) ==
    /\ running /\ listVisible
    /\ MenuOpens(currentRow)
    /\ Handled(edit(todos, currentRow, text, ok), Op("edit", currentRow, text, ok))

ItemMenuDelete ==
    /\ running /\ listVisible
    /\ MenuOpens(currentRow)
    /\ Handled(delete(todos, currentRow), Op("delete", currentRow, <<>>, FALSE))

DoubleClick ==
    /\ running
    /\ listVisible' = mouseDoubleClickEvent(collapsed)[1]
    /\ collapsed' = mouseDoubleClickEvent(collapsed)[2]
    /\ last' = Op("double_click", -1, <<>>, FALSE)
    /\ before' = Snapshot
    /\ UNCHANGED <<file, startFile, todos, rows, currentRow, width, height,
                   running, loaded, pc>>

ChangeSize(reqw, ok1, reqh, ok2) ==
    /\ running
    /\ LET w == getInt(reqw, MinSize, MaxSize)
           h == getInt(reqh, MinSize, MaxSize)
           s == change_size(width, height, w, ok1, h, ok2)
       IN  /\ width' = s[1]
           /\ height' = s[2]
           /\ last' = [Op("change_size", -1, <<>>, ok1) EXCEPT
                          !.ok2 = ok1 /\ ok2, !.w = w, !.h = IF ok1 THEN h ELSE 0]
    /\ before' = Snapshot
    /\ UNCHANGED <<file, startFile, todos, rows, currentRow, listVisible, collapsed,
                   running, loaded, pc>>

\* exit that quits without saving
ExitNoSave ==
    /\ running
    /\ running' = FALSE
    /\ last' = Op("exit", -1, <<>>, FALSE)
    /\ before' = Snapshot
    /\ UNCHANGED <<file, startFile, todos, rows, currentRow, listVisible, collapsed,
                   width, height, loaded, pc>>

\* TodoWidget.exit
Exit ==
    /\ running
    /\ file' = save(todos)
    /\ running' = FALSE
    /\ last' = Op("exit", -1, <<>>, FALSE)
    /\ before' = Snapshot
    /\ UNCHANGED <<startFile, todos, rows, currentRow, listVisible, collapsed,
                   width, height, loaded, pc>>

Next ==
    \/ \E text \in InputTexts, ok \in BOOLEAN : Add(text, ok)
    \/ \E r \in 0..MaxItems : PressRow(r)
    \/ ItemMenuNone
    \/ ItemMenuToggle
    \/ \E text \in InputTexts, ok \in BOOLEAN : ItemMenuEdit(text, ok)
    \/ ItemMenuDelete
    \/ DoubleClick
    \/ \E reqw \in WidthRequests, reqh \in HeightRequests, ok1 \in BOOLEAN, ok2 \in BOOLEAN :
          ChangeSize(reqw, ok1, reqh, ok2)
    \/ Exit

Spec == Init /\ [][Next]_vars

-----------------------------------------------------------------------------
(* The save/load round trip, on every list of at most MaxItemsRT items over *)
(* the texts RTTexts: load with no file, save, load.                        *)

\* every text of at most two characters
RTTexts ==
    {<<>>} \cup {<<c>> : c \in Alphabet} \cup {<<c, d>> : c \in Alphabet, d \in Alphabet}

RTItems == {Item(t, d) : t \in RTTexts, d \in BOOLEAN}

RECURSIVE ListsUpTo(_)
ListsUpTo(n) ==
    IF n = 0 THEN {<<>>}
    ELSE LET shorter == ListsUpTo(n - 1)
         IN  shorter \cup {Append(l, x) : l \in {m \in shorter : Len(m) = n - 1}, x \in RTItems}

InitRT ==
    /\ todos \in ListsUpTo(MaxItemsRT)
    /\ file = NoFile
    /\ startFile = NoFile
    /\ loaded = [raised |-> FALSE, todos |-> <<>>]
    /\ pc = "start"
    /\ rows = <<>>
    /\ currentRow = -1
    /\ listVisible = TRUE
    /\ collapsed = FALSE
    /\ width = InitWidth
    /\ height = InitHeight
    /\ running = TRUE
    /\ last = Op("init", -1, <<>>, FALSE)
    /\ before = [todos |-> <<>>, width |-> InitWidth, height |-> InitHeight,
                 collapsed |-> FALSE, listVisible |-> TRUE]

RTFrame == UNCHANGED <<startFile, todos, rows, currentRow, listVisible, collapsed,
                       width, height, running, last, before>>

\* load() while the data file does not exist
LoadAbsent ==
    /\ pc = "start"
    /\ loaded' = load(file)
    /\ pc' = "loaded_absent"
    /\ UNCHANGED file
    /\ RTFrame

\* save()
Save ==
    /\ pc = "loaded_absent"
    /\ file' = save(todos)
    /\ pc' = "saved"
    /\ UNCHANGED loaded
    /\ RTFrame

\* load() of the file save() wrote
LoadSaved ==
    /\ pc = "saved"
    /\ loaded' = load(file)
    /\ pc' = "loaded_saved"
    /\ UNCHANGED file
    /\ RTFrame

NextRT == LoadAbsent \/ Save \/ LoadSaved

SpecRT == InitRT /\ [][NextRT]_vars

-----------------------------------------------------------------------------
(* Claims *)

InRange(i, td) == 0 <= i /\ i < Len(td)

\* C1: while the program runs the data file is what it was at startup; once
\* exit has run the file exists, parses, and holds exactly the to-do list as
\* it was when exit ran.  Only exit changes the file.
C1_FileOnlyWrittenByExit ==
    /\ last.op # "exit" => running /\ file = startFile
    /\ last.op = "exit" =>
          /\ ~running
          /\ file.exists
          /\ ~load(file).raised
          /\ load(file).todos = before.todos
          /\ todos = before.todos

C1_Witness ==
    /\ last.op = "exit"
    /\ Len(before.todos) >= 2
    /\ file # startFile
    /\ startFile.exists

\* C2: save followed by load returns the saved list, whatever its length,
\* texts and done flags; load returns the empty list when the file is absent.
C2_RoundTrip ==
    /\ pc = "loaded_absent" => ~loaded.raised /\ loaded.todos = <<>>
    /\ pc = "loaded_saved" =>
          /\ ~loaded.raised
          /\ Len(loaded.todos) = Len(todos)
          /\ \A k \in 1..Len(todos) :
                /\ loaded.todos[k].text = todos[k].text
                /\ loaded.todos[k].done = todos[k].done

C2_Witness ==
    /\ pc = "loaded_saved"
    /\ Len(loaded.todos) >= 2
    /\ loaded.todos[1].done /\ ~loaded.todos[2].done
    /\ loaded.todos[1].text = <<BS, "n">>
    /\ loaded.todos[2].text = <<NL, DQ>>

\* C3: every item that exit writes to the data file has a non-empty text.
C3_SavedTextNonEmpty ==
    last.op = "exit" =>
        \A k \in 1..Len(load(file).todos) : load(file).todos[k].text # <<>>

\* C4: add leaves the list unchanged when the prompt is cancelled or the text
\* is empty; otherwise it appends one item {text, done: false} and every
\* earlier item keeps its position, text and done value.
C4_Add ==
    last.op = "add" =>
        IF last.ok /\ last.text # <<>>
        THEN /\ Len(todos) = Len(before.todos) + 1
             /\ todos[Len(todos)].text = last.text
             /\ todos[Len(todos)].done = FALSE
             /\ \A k \in 1..Len(before.todos) : todos[k] = before.todos[k]
        ELSE todos = before.todos

C4_Witness ==
    /\ last.op = "add"
    /\ last.ok /\ last.text # <<>>
    /\ Len(before.todos) >= 1
    /\ before.todos[1].done

\* C5: edit(i) leaves the list unchanged when cancelled; when confirmed, also
\* with empty text, item i gets the entered text, and item i's done flag, the
\* length and every other item stay as they were.
C5_Edit ==
    last.op = "edit" =>
        /\ Len(todos) = Len(before.todos)
        /\ \A k \in 1..Len(todos) :
              /\ todos[k].done = before.todos[k].done
              /\ todos[k].text = IF k = last.i + 1 /\ last.ok THEN last.text
                                 ELSE before.todos[k].text

C5_Witness ==
    /\ last.op = "edit"
    /\ last.ok /\ last.text = <<>>
    /\ Len(todos) >= 2
    /\ before.todos[last.i + 1].text # <<>>
    /\ before.todos[last.i + 1].done

\* C6: toggle, edit and delete of the item menu get an index of an existing
\* item; delete(i) removes item i and nothing else, so that the length drops
\* by one and the other items keep their text, done value and order.
C6_IndexAndDelete ==
    /\ last.op \in {"toggle", "edit", "delete"} =>
          InRange(last.i, before.todos) /\ ~last.raised
    /\ last.op = "delete" =>
          /\ Len(todos) = Len(before.todos) - 1
          /\ \A k \in 1..Len(todos) :
                todos[k] = IF k <= last.i THEN before.todos[k] ELSE before.todos[k + 1]

C6_Witness ==
    /\ last.op = "delete"
    /\ Len(before.todos) >= 2
    /\ last.i = 0
    /\ before.todos[1] # before.todos[2]

\* C7: toggle(i) flips the done flag of item i and changes nothing else, and
\* toggle(i) applied once more gives back the list as it was.
C7_Toggle ==
    last.op = "toggle" =>
        /\ Len(todos) = Len(before.todos)
        /\ \A k \in 1..Len(todos) :
              /\ todos[k].text = before.todos[k].text
              /\ todos[k].done = IF k = last.i + 1 THEN ~before.todos[k].done
                                 ELSE before.todos[k].done
        /\ toggle(todos, last.i).todos = before.todos

C7_Witness ==
    /\ last.op = "toggle"
    /\ Len(todos) >= 2
    /\ before.todos[last.i + 1].done
    /\ ~todos[last.i + 1].done

\* C8: change_size applies both numbers or none: with either prompt
\* cancelled width and height stay, with both confirmed they become the
\* entered numbers; width and height are always within [200, 800].
C8_ChangeSize ==
    /\ width \in MinSize..MaxSize
    /\ height \in MinSize..MaxSize
    /\ last.op = "change_size" =>
          IF last.ok /\ last.ok2
          THEN width = last.w /\ height = last.h
          ELSE width = before.width /\ height = before.height

C8_Witness ==
    /\ last.op = "change_size"
    /\ last.ok /\ ~last.ok2
    /\ last.w # before.width
    /\ width = InitWidth /\ height = InitHeight

\* C9: the list view has one row per item, in order, labelled with the done
\* marker of the item followed by its text.
C9_RowsMirrorList ==
    /\ Len(rows) = Len(todos)
    /\ \A k \in 1..Len(todos) :
          rows[k] = (IF todos[k].done THEN <<"CHECK", SP>> ELSE <<"CIRCLE", SP>>)
                        \o todos[k].text

C9_Witness ==
    /\ last.op = "delete"
    /\ Len(rows) >= 1
    /\ rows[1][1] = "CHECK"
    /\ before.todos[1].done = FALSE

\* C10: the list view is visible exactly when collapsed is false; a
\* double-click flips collapsed, and one more double-click gives back both
\* collapsed and the visibility.
C10_Collapse ==
    /\ listVisible <=> ~collapsed
    /\ last.op = "double_click" =>
          /\ collapsed = ~before.collapsed
          /\ mouseDoubleClickEvent(collapsed) = <<before.listVisible, before.collapsed>>

C10_Witness ==
    /\ last.op = "double_click"
    /\ ~collapsed /\ listVisible
    /\ before.collapsed

====
